---- MODULE Spec2Model ----
(***************************************************************************)
(* Model of the lyrics-scroller repository.                                *)
(*                                                                         *)
(*   synchronizer.py        the capture loop of main(): a pausable         *)
(*                          stopwatch, the tap history `stamps`, the line  *)
(*                          index `i`, autosave and the final save.        *)
(*   merge_lyrics_to_srt.py the synthesis of subtitle cues from a sorted   *)
(*                          timeline (compute_intervals).                  *)
(*                                                                         *)
(* Time is fixed-point.  In the capture loop one unit is 1 ms (the         *)
(* resolution of the "%.3f" written by write_output); in the synthesis one *)
(* unit is 0.01 s, so GAP = MIN_DURATION = 1 and MAX_DURATION = 400.       *)
(*                                                                         *)
(* Two specifications share the variables: Spec runs the capture loop,     *)
(* SpecSynth runs the synthesis on every bounded timeline.                 *)
(***************************************************************************)
EXTENDS Integers, Sequences, FiniteSets, TLC

VARIABLES
    \* ---- synchronizer.py, main() ----
    pc,                 \* "decode" (ffmpeg running), "start" (before the loop),
                        \* "input" (blocked in input()), "done"
    clock,              \* time.perf_counter()
    lines,              \* the loaded lyric lines
    args_autosave_every,\* --autosave_every
    args_offset,        \* --offset
    autosave_every,
    t0,
    i,
    paused,
    pause_start,
    accumulated_pause,
    stamps,             \* the tap history, a sequence of <<t, line>>
    playing,            \* play is not None and play.is_playing()
    dest,               \* the records in the file args.out
    saved_msg,          \* which save message was printed last: "none", "autosave", "final", "interrupt"
    ended_by,           \* how the loop was left: "no", "quit", "eof", "complete", "interrupt",
                        \* "decode_error", "device_error"
    run_time,           \* history variable: real time spent in the loop while not paused
    undone,             \* history variable: an undo removed a record since the last save
    tmp_file,           \* the temporary .wav: "exists", "removed", "remove_failed"
    wav_path,           \* main's wav_path is set (not None)
    env_remove_ok,      \* environment: os.remove(wav_path) will succeed
    \* ---- merge_lyrics_to_srt.py ----
    phase,              \* "rows" (collected, unsorted), "entries" (sorted), "cues"
    rows,
    entries,
    intervals,
    starts_txt,         \* the lines of starts.txt
    files,              \* track id -> the characters of <id>-lyrics-aligned.csv, or Missing
    starts,             \* collect_all_entries' starts, once read_starts has returned
    fail,               \* the exception that ended the run, or "none"
    srt_opened,         \* write_srt has opened the output file
    srt_out,            \* the cue blocks written to the output file
    rt,                 \* record round trip: "idle", "stamps", "written", "read"
    loaded              \* what read_lyrics_csv returned for the written records

capture_vars == <<pc, clock, lines, args_autosave_every, args_offset, autosave_every,
                  t0, i, paused, pause_start, accumulated_pause, stamps, playing,
                  dest, saved_msg, ended_by, run_time, undone,
                  tmp_file, wav_path, env_remove_ok>>
resource_vars == <<tmp_file, wav_path, env_remove_ok>>
synth_vars == <<phase, rows, entries, intervals>>
merge_vars == <<starts_txt, files, starts, fail, srt_opened, srt_out, rt, loaded>>
vars == <<capture_vars, synth_vars, merge_vars>>

\* ---------------------------------------------------------------------------
\* Bounds
\* ---------------------------------------------------------------------------
MaxClock == 4       \* the clock stops advancing here
MaxLines == 4       \* longest lyrics file
MaxEntries == 3     \* longest timeline
MaxStartsLines == 2 \* longest starts.txt

\* ---------------------------------------------------------------------------
\* Helpers
\* ---------------------------------------------------------------------------
None == -1          \* Python's None for pause_start (perf_counter() is never negative)

Max(a, b) == IF a >= b THEN a ELSE b
Min(a, b) == IF a <= b THEN a ELSE b

IsPrefix(s, t) == Len(s) <= Len(t) /\ \A k \in 1..Len(s) : s[k] = t[k]

Range(s) == {s[k] : k \in 1..Len(s)}

\* ---------------------------------------------------------------------------
\* merge_lyrics_to_srt.py
\* ---------------------------------------------------------------------------
GAP == 1
MIN_DURATION == 1
MAX_DURATION == 400

StartTimes == {0, 1, 100, 500, 1000}
Texts == {"a", "b"}

\* list.sort(key=lambda x: x[0]): a stable sort by the start time
RECURSIVE InsertByStart(_, _)
InsertByStart(sorted, e) ==
    IF sorted = <<>> THEN <<e>>
    ELSE IF sorted[Len(sorted)][1] <= e[1] THEN Append(sorted, e)
    ELSE Append(InsertByStart(SubSeq(sorted, 1, Len(sorted) - 1), e), sorted[Len(sorted)])

\* mutant: the entries are left in input order
SortByStart_not_sorted(s) == s

RECURSIVE SortByStart(_)
SortByStart(s) ==
    IF s = <<>> THEN <<>>
    ELSE InsertByStart(SortByStart(SubSeq(s, 1, Len(s) - 1)), s[Len(s)])

\* mutant: the GAP before the next start is forgotten
interval_end_no_gap(es, k) ==
    LET start == es[k][1]
        end == IF k < Len(es)
               THEN Min(start + MAX_DURATION, es[k + 1][1])
               ELSE start + MAX_DURATION
    IN IF end <= start THEN start + MIN_DURATION ELSE end

\* mutant: the floor is applied only when end < start
interval_end_strict_floor(es, k) ==
    LET start == es[k][1]
        end == IF k < Len(es)
               THEN Min(start + MAX_DURATION, es[k + 1][1] - GAP)
               ELSE start + MAX_DURATION
    IN IF end < start THEN start + MIN_DURATION ELSE end

\* mutant: the last entry gets the minimal duration
interval_end_last_minimal(es, k) ==
    LET start == es[k][1]
        end == IF k < Len(es)
               THEN Min(start + MAX_DURATION, es[k + 1][1] - GAP)
               ELSE start + MIN_DURATION
    IN IF end <= start THEN start + MIN_DURATION ELSE end

\* the body of the loop of compute_intervals for the entry at index k (1-based)
interval_end(es, k) ==
    LET start == es[k][1]
        end == IF k < Len(es)
               THEN Min(start + MAX_DURATION, es[k + 1][1] - GAP)
               ELSE start + MAX_DURATION
    IN IF end <= start THEN start + MIN_DURATION ELSE end

compute_intervals(es) ==
    [k \in 1..Len(es) |-> <<es[k][1], interval_end(es, k), es[k][2]>>]

SeqsUpTo(S, n) == UNION {[1..m -> S] : m \in 0..n}

SynthIdle ==
    /\ phase = "rows" /\ rows = <<>> /\ entries = <<>> /\ intervals = <<>>

MergeIdle ==
    /\ starts_txt = <<>> /\ files = <<>> /\ starts = <<>> /\ fail = "none"
    /\ srt_opened = FALSE /\ srt_out = <<>> /\ rt = "idle"
    /\ loaded = [ok |-> TRUE, err |-> "none", val |-> <<>>]

InitSynth ==
    /\ phase = "rows"
    /\ rows \in SeqsUpTo(StartTimes \X Texts, MaxEntries)
    /\ entries = <<>>
    /\ intervals = <<>>

\* collect_all_entries: the closing entries.sort(key=lambda x: x[0])
CollectAllEntries ==
    /\ phase = "rows"
    /\ entries' = SortByStart(rows)
    /\ phase' = "entries"
    /\ UNCHANGED <<rows, intervals>>
    /\ UNCHANGED <<capture_vars, merge_vars>>

\* main: intervals = compute_intervals(entries)
ComputeIntervals ==
    /\ phase = "entries"
    /\ intervals' = compute_intervals(entries)
    /\ phase' = "cues"
    /\ UNCHANGED <<rows, entries>>
    /\ UNCHANGED <<capture_vars, merge_vars>>

\* ---------------------------------------------------------------------------
\* merge_lyrics_to_srt.py: reading the input folder
\*
\* File contents are sequences of characters.  Times read from files are kept
\* in units of 1/32000 s (Second units make one second), in which a frame of
\* 1/32 s and a millisecond are both whole numbers.
\* ---------------------------------------------------------------------------
FPS == 32
Second == 1000 * FPS

Digits == {"0", "1", "2", "3", "4", "5", "6", "7", "8", "9"}

DigitVal(c) ==
    CASE c = "0" -> 0 [] c = "1" -> 1 [] c = "2" -> 2 [] c = "3" -> 3
      [] c = "4" -> 4 [] c = "5" -> 5 [] c = "6" -> 6 [] c = "7" -> 7
      [] c = "8" -> 8 [] OTHER -> 9

IsSpace(c) == c \in {" ", "\n"}

AllDigits(cs) == cs # <<>> /\ \A k \in 1..Len(cs) : cs[k] \in Digits

\* int("...") of a non-empty digit string
RECURSIVE IntOf(_)
IntOf(cs) ==
    IF cs = <<>> THEN 0
    ELSE 10 * IntOf(SubSeq(cs, 1, Len(cs) - 1)) + DigitVal(cs[Len(cs)])

\* str.strip()
RECURSIVE StripLeft(_)
StripLeft(cs) ==
    IF cs # <<>> /\ IsSpace(Head(cs)) THEN StripLeft(Tail(cs)) ELSE cs

RECURSIVE StripRight(_)
StripRight(cs) ==
    IF cs # <<>> /\ IsSpace(cs[Len(cs)]) THEN StripRight(SubSeq(cs, 1, Len(cs) - 1)) ELSE cs

Strip(cs) == StripRight(StripLeft(cs))

\* the pieces of cs between occurrences of sep (empty pieces kept)
RECURSIVE SplitOn(_, _, _, _)
SplitOn(cs, sep, cur, acc) ==
    IF cs = <<>> THEN Append(acc, cur)
    ELSE IF Head(cs) = sep THEN SplitOn(Tail(cs), sep, <<>>, Append(acc, cur))
    ELSE SplitOn(Tail(cs), sep, Append(cur, Head(cs)), acc)

\* str.split(): the maximal runs of non-space characters
RECURSIVE SplitWs(_, _, _)
SplitWs(cs, cur, acc) ==
    IF cs = <<>> THEN (IF cur = <<>> THEN acc ELSE Append(acc, cur))
    ELSE IF IsSpace(Head(cs))
         THEN SplitWs(Tail(cs), <<>>, IF cur = <<>> THEN acc ELSE Append(acc, cur))
    ELSE SplitWs(Tail(cs), Append(cur, Head(cs)), acc)

Failure == [ok |-> FALSE, val |-> 0]
Success(v) == [ok |-> TRUE, val |-> v]

\* mutant: the frames are read as hundredths of a second
parse_timecode_decimal(tc) ==
    LET parts == SplitOn(Strip(tc), ":", <<>>, <<>>)
    IN IF Len(parts) = 3 /\ \A k \in 1..3 : AllDigits(parts[k])
       THEN Success(IntOf(parts[1]) * 60 * Second + IntOf(parts[2]) * Second
                    + IntOf(parts[3]) * (Second \div 100))
       ELSE Failure

\* parse_timecode_base32: re.fullmatch(r"(\d+):(\d+):(\d+)", tc.strip());
\* mm * 60.0 + ss + ff / FPS
parse_timecode_base32(tc) ==
    LET parts == SplitOn(Strip(tc), ":", <<>>, <<>>)
    IN IF Len(parts) = 3 /\ \A k \in 1..3 : AllDigits(parts[k])
       THEN Success(IntOf(parts[1]) * 60 * Second + IntOf(parts[2]) * Second
                    + IntOf(parts[3]) * (Second \div FPS))
       ELSE Failure

\* string comparison a <= b, by characters (track ids are digit strings)
RECURSIVE LexLeq(_, _)
LexLeq(a, b) ==
    IF a = <<>> THEN TRUE
    ELSE IF b = <<>> THEN FALSE
    ELSE IF Head(a) = Head(b) THEN LexLeq(Tail(a), Tail(b))
    ELSE DigitVal(Head(a)) < DigitVal(Head(b))

\* starts.sort(key=lambda x: x[0]): a stable sort by the track id
RECURSIVE InsertByTrack(_, _)
InsertByTrack(sorted, e) ==
    IF sorted = <<>> THEN <<e>>
    ELSE IF LexLeq(sorted[Len(sorted)][1], e[1]) THEN Append(sorted, e)
    ELSE Append(InsertByTrack(SubSeq(sorted, 1, Len(sorted) - 1), e), sorted[Len(sorted)])

RECURSIVE SortByTrack(_)
SortByTrack(s) ==
    IF s = <<>> THEN <<>>
    ELSE InsertByTrack(SortByTrack(SubSeq(s, 1, Len(s) - 1)), s[Len(s)])

\* the loop of read_starts over the lines of starts.txt
RECURSIVE read_starts_lines(_, _)
read_starts_lines(ls, acc) ==
    IF ls = <<>> THEN [ok |-> TRUE, err |-> "none", val |-> acc]
    ELSE LET line == Strip(Head(ls))
             parts == SplitWs(line, <<>>, <<>>)
         IN IF line = <<>> THEN read_starts_lines(Tail(ls), acc)
            ELSE IF Len(parts) # 2
                 THEN [ok |-> FALSE, err |-> "bad_starts_line", val |-> <<>>]
            ELSE IF ~parse_timecode_base32(parts[2]).ok
                 THEN [ok |-> FALSE, err |-> "bad_timecode", val |-> <<>>]
            ELSE read_starts_lines(Tail(ls),
                     Append(acc, <<parts[1], parse_timecode_base32(parts[2]).val>>))

\* read_starts
read_starts(ls) ==
    LET r == read_starts_lines(ls, <<>>)
    IN IF r.ok THEN [r EXCEPT !.val = SortByTrack(r.val)] ELSE r

\* the value of the digits after the decimal point; scale is the value of a
\* unit of the first of them
RECURSIVE FracOf(_, _)
FracOf(cs, scale) ==
    IF cs = <<>> THEN 0
    ELSE DigitVal(Head(cs)) * scale + FracOf(Tail(cs), scale \div 10)

\* float() of an unsigned decimal
FloatUnsigned(cs) ==
    LET parts == SplitOn(cs, ".", <<>>, <<>>)
        digits(x) == \A k \in 1..Len(x) : x[k] \in Digits
    IN IF Len(parts) = 1 /\ AllDigits(parts[1])
       THEN Success(IntOf(parts[1]) * Second)
       ELSE IF /\ Len(parts) = 2
               /\ digits(parts[1]) /\ digits(parts[2])
               /\ Len(parts[1]) + Len(parts[2]) > 0
            THEN Success(IntOf(parts[1]) * Second + FracOf(parts[2], Second \div 10))
       ELSE Failure

\* mutant: a signed number is rejected
ParseFloat_unsigned(cs) == FloatUnsigned(Strip(cs))

\* float(s) for decimal notation: optional sign, digits, optional fraction
ParseFloat(cs) ==
    LET t == Strip(cs)
    IN IF t # <<>> /\ Head(t) = "-"
       THEN (IF FloatUnsigned(Tail(t)).ok
             THEN Success(0 - FloatUnsigned(Tail(t)).val) ELSE Failure)
       ELSE IF t # <<>> /\ Head(t) = "+" THEN FloatUnsigned(Tail(t))
       ELSE FloatUnsigned(t)

\* csv.reader, default dialect (delimiter ",", quotechar "\"", doublequote, not
\* strict), over the characters of a file from position k on
RECURSIVE ParseCsv(_, _, _, _, _, _)
ParseCsv(cs, k, st, field, row, out) ==
    IF k > Len(cs)
    THEN (IF st = "START_RECORD" THEN out ELSE Append(out, Append(row, field)))
    ELSE LET c == cs[k]
         IN CASE st \in {"START_RECORD", "START_FIELD"} ->
                    (IF c = "\n"
                     THEN ParseCsv(cs, k + 1, "START_RECORD", <<>>, <<>>,
                                   Append(out, IF st = "START_RECORD" THEN <<>>
                                               ELSE Append(row, <<>>)))
                     ELSE IF c = "\""
                          THEN ParseCsv(cs, k + 1, "IN_QUOTED_FIELD", <<>>, row, out)
                     ELSE IF c = ","
                          THEN ParseCsv(cs, k + 1, "START_FIELD", <<>>, Append(row, <<>>), out)
                     ELSE ParseCsv(cs, k + 1, "IN_FIELD", <<c>>, row, out))
              [] st = "IN_FIELD" ->
                    (IF c = "\n"
                     THEN ParseCsv(cs, k + 1, "START_RECORD", <<>>, <<>>,
                                   Append(out, Append(row, field)))
                     ELSE IF c = ","
                          THEN ParseCsv(cs, k + 1, "START_FIELD", <<>>, Append(row, field), out)
                     ELSE ParseCsv(cs, k + 1, "IN_FIELD", Append(field, c), row, out))
              [] st = "IN_QUOTED_FIELD" ->
                    (IF c = "\""
                     THEN ParseCsv(cs, k + 1, "QUOTE_IN_QUOTED_FIELD", field, row, out)
                     ELSE ParseCsv(cs, k + 1, "IN_QUOTED_FIELD", Append(field, c), row, out))
              [] OTHER ->
                    (IF c = "\""
                     THEN ParseCsv(cs, k + 1, "IN_QUOTED_FIELD", Append(field, c), row, out)
                     ELSE IF c = ","
                          THEN ParseCsv(cs, k + 1, "START_FIELD", <<>>, Append(row, field), out)
                     ELSE IF c = "\n"
                          THEN ParseCsv(cs, k + 1, "START_RECORD", <<>>, <<>>,
                                        Append(out, Append(row, field)))
                     ELSE ParseCsv(cs, k + 1, "IN_FIELD", Append(field, c), row, out))

csv_reader(cs) == ParseCsv(cs, 1, "START_RECORD", <<>>, <<>>, <<>>)

\* mutant: a row whose start time does not parse is skipped
RECURSIVE read_rows_skip_bad(_, _)
read_rows_skip_bad(rs, acc) ==
    IF rs = <<>> THEN [ok |-> TRUE, err |-> "none", val |-> acc]
    ELSE LET row == Head(rs)
         IN IF row = <<>> THEN read_rows_skip_bad(Tail(rs), acc)
            ELSE IF ~ParseFloat(row[1]).ok THEN read_rows_skip_bad(Tail(rs), acc)
            ELSE read_rows_skip_bad(Tail(rs),
                     Append(acc, <<ParseFloat(row[1]).val,
                                   IF Len(row) >= 3 THEN row[3] ELSE <<>>>>))

\* the loop of read_lyrics_csv over the rows of the reader
RECURSIVE read_rows(_, _)
read_rows(rs, acc) ==
    IF rs = <<>> THEN [ok |-> TRUE, err |-> "none", val |-> acc]
    ELSE LET row == Head(rs)
         IN IF row = <<>> THEN read_rows(Tail(rs), acc)
            ELSE IF ~ParseFloat(row[1]).ok
                 THEN [ok |-> FALSE, err |-> "invalid_start", val |-> <<>>]
            ELSE read_rows(Tail(rs),
                     Append(acc, <<ParseFloat(row[1]).val,
                                   IF Len(row) >= 3 THEN row[3] ELSE <<>>>>))

\* read_lyrics_csv: the rows (start, text) of one file, sorted by start
read_lyrics_csv(cs) ==
    LET r == read_rows(csv_reader(cs), <<>>)
    IN IF r.ok THEN [r EXCEPT !.val = SortByStart(r.val)] ELSE r

\* ---------------------------------------------------------------------------
\* merge_lyrics_to_srt.py: main() on an input folder (SpecMerge)
\* ---------------------------------------------------------------------------
Missing == <<"no such file">>

TrackIds == {<<"0", "1">>, <<"0", "2">>}

Line_01_000000 == <<"0", "1", " ", "0", "0", ":", "0", "0", ":", "0", "0">>
Line_02_000116 == <<"0", "2", " ", "0", "0", ":", "0", "1", ":", "1", "6">>
Line_01_000116 == <<"0", "1", " ", "0", "0", ":", "0", "1", ":", "1", "6">>
Line_BadTimecode == <<"0", "2", " ", "0", ":", "5">>
Line_OnePart == <<"0", "1">>
Line_Blank == <<>>
Line_03_000008 == <<"0", "3", " ", "0", "0", ":", "0", "0", ":", "0", "8">>

StartsLines == {Line_01_000000, Line_02_000116, Line_01_000116, Line_BadTimecode,
                Line_OnePart, Line_Blank, Line_03_000008}

Csv_TwoRows == <<"0", ".", "0", "0", ",", "0", ",", "a", "\n", "5", ".", "0", "0", ",", "0", ",", "b", "\n">>
Csv_QuotedAndShort == <<"5", ".", "0", "0", ",", "0", ",", "\"", "x", ",", "y", "\"", "\n", "1", ".", "0", "0", "\n">>
Csv_BadStart == <<"a", "b", "c", ",", "0", ",", "a", "\n">>
Csv_Negative == <<"-", "1", ".", "5", "0", ",", "0", ",", "n", "\n">>
Csv_BlankAndTies == <<"\n", "5", ".", "0", "0", ",", "0", ",", "b", "\n", "5", ".", "0", "0", ",", "0", ",", "a", "\n">>

CsvFiles == {Csv_TwoRows, Csv_QuotedAndShort, Csv_BadStart, Csv_Negative, Csv_BlankAndTies}

\* the folder exists and holds starts.txt (main's exits 2 and 3 are not taken)
InitMerge ==
    /\ phase = "folder"
    /\ rows = <<>>
    /\ entries = <<>>
    /\ intervals = <<>>
    /\ starts_txt \in SeqsUpTo(StartsLines, MaxStartsLines)
    /\ files \in [TrackIds -> CsvFiles \cup {Missing}]
    /\ starts = <<>>
    /\ fail = "none"
    /\ srt_opened = FALSE
    /\ srt_out = <<>>
    /\ rt = "idle"
    /\ loaded = [ok |-> TRUE, err |-> "none", val |-> <<>>]

\* fpath.exists()
FileExists(track) == track \in DOMAIN files /\ files[track] # Missing

\* a time read from the files, in the 0.01 s units of the timeline
ToCs(u) == u \div (Second \div 100)

\* the loop of collect_all_entries over the tracks of starts
RECURSIVE collect_tracks(_, _)
collect_tracks(sts, acc) ==
    IF sts = <<>> THEN [ok |-> TRUE, err |-> "none", val |-> acc]
    ELSE LET track == Head(sts)[1]
             album_offset == Head(sts)[2]
         IN IF ~FileExists(track)
            THEN [ok |-> FALSE, err |-> "missing_file", val |-> <<>>]
            ELSE LET r == read_lyrics_csv(files[track])
                 IN IF ~r.ok THEN r
                    ELSE collect_tracks(Tail(sts),
                             acc \o [k \in 1..Len(r.val) |->
                                        <<ToCs(album_offset + r.val[k][1]), r.val[k][2]>>])

\* entries = collect_all_entries(in_dir): read_starts, the per-track files, the
\* global sort; an exception ends the run
CollectFromFolder ==
    /\ phase = "folder"
    /\ LET rs == read_starts(starts_txt)
           c == collect_tracks(rs.val, <<>>)
       IN IF ~rs.ok
          THEN /\ phase' = "failed"
               /\ fail' = rs.err
               /\ UNCHANGED <<starts, rows, entries>>
          ELSE /\ starts' = rs.val
               /\ IF ~c.ok
                  THEN /\ phase' = "failed"
                       /\ fail' = c.err
                       /\ UNCHANGED <<rows, entries>>
                  ELSE /\ phase' = "entries"
                       /\ rows' = c.val
                       /\ entries' = SortByStart(c.val)
                       /\ UNCHANGED fail
    /\ UNCHANGED <<intervals, starts_txt, files, srt_opened, srt_out, rt, loaded>>
    /\ UNCHANGED capture_vars

\* s_to_srt_ts: hours, minutes, seconds, milliseconds of a time in 0.01 s
s_to_srt_ts(t) ==
    LET ms_total == (IF t < 0 THEN 0 ELSE t) * 10
        rem1 == ms_total % 3600000
        rem2 == rem1 % 60000
    IN <<ms_total \div 3600000, rem1 \div 60000, rem2 \div 1000, rem2 % 1000>>

\* write_srt: one block per cue: index, start --> end, text
write_srt(ivs) ==
    [k \in 1..Len(ivs) |-> <<k, s_to_srt_ts(ivs[k][1]), s_to_srt_ts(ivs[k][2]), ivs[k][3]>>]

\* main: write_srt(intervals, out_file)
WriteSrt ==
    /\ phase = "cues"
    /\ srt_opened' = TRUE
    /\ srt_out' = write_srt(intervals)
    /\ phase' = "written"
    /\ UNCHANGED <<rows, entries, intervals, starts_txt, files, starts, fail, rt, loaded>>
    /\ UNCHANGED capture_vars

\* ---------------------------------------------------------------------------
\* synchronizer.py
\* ---------------------------------------------------------------------------
\* a lyric line is a sequence of characters; the lines of the lyrics file
LineText(k) ==
    CASE k % 3 = 1 -> <<"l", "a">>
      [] k % 3 = 2 -> <<"s", "\"">>
      [] OTHER     -> <<"o", ",">>

\* load_lyrics: the non-empty lines of the file, never an empty list
LyricsFiles == {[k \in 1..n |-> LineText(k)] : n \in 1..MaxLines}

AutosaveArgs == {-1, 0, 1, 2}
OffsetArgs == {-2, 0, 1}

\* line.replace("\"", "\\\""): every double quote gets a backslash before it
RECURSIVE Escape(_)
Escape(line) ==
    IF line = <<>> THEN <<>>
    ELSE IF Head(line) = "\"" THEN <<"\\", "\"">> \o Escape(Tail(line))
    ELSE <<Head(line)>> \o Escape(Tail(line))

\* the record write_output writes for one stamp: t2, 0, "escaped text"
output_record(stamp, offset) ==
    <<Max(0, stamp[1] + offset), 0, Escape(stamp[2])>>

\* mutant: the file is opened for appending
write_output_append(st, offset) ==
    dest \o [k \in 1..Len(st) |-> output_record(st[k], offset)]

\* mutant: the last stamp is not written
write_output_short(st, offset) ==
    [k \in 1..(Len(st) - 1) |-> output_record(st[k], offset)]

\* write_output: open(out_path, "w") truncates, then one record per stamp
write_output(st, offset) ==
    [k \in 1..Len(st) |-> output_record(st[k], offset)]

\* mutant: the accumulated pause is not subtracted
now_with_pauses == clock - t0

\* def now(): time.perf_counter() - t0 - accumulated_pause
now == clock - t0 - accumulated_pause

\* mutant: the pause is measured from the origin of the stopwatch
pause_length_from_origin == clock - t0

\* time.perf_counter() - pause_start
pause_length == clock - pause_start

\* mutant: the test is made on the length before the append
should_autosave_early(n) ==
    autosave_every # 0 /\ (n - 1) % autosave_every = 0

\* if autosave_every and (len(stamps) % autosave_every == 0)
should_autosave(n) ==
    autosave_every # 0 /\ n % autosave_every = 0

\* mutant: the loop stops one line early
loop_continues_short(idx) == idx < Len(lines) - 1

\* while i < len(lines)
loop_continues(idx) == idx < Len(lines)

\* mutant: a mark is never rejected
mark_blocked_never == FALSE

\* if paused: print("You are paused. ..."); continue
mark_blocked == paused

InitCapture ==
    /\ pc = "start"
    /\ clock = 0
    /\ lines \in LyricsFiles
    /\ args_autosave_every \in AutosaveArgs
    /\ args_offset \in OffsetArgs
    /\ autosave_every = 0
    /\ t0 = 0
    /\ i = 0
    /\ paused = FALSE
    /\ pause_start = None
    /\ accumulated_pause = 0
    /\ stamps = <<>>
    /\ playing = FALSE
    /\ dest = <<>>
    /\ saved_msg = "none"
    /\ ended_by = "no"
    /\ run_time = 0
    /\ undone = FALSE
    /\ tmp_file = "exists"
    /\ wav_path = TRUE
    /\ env_remove_ok = TRUE

CaptureIdle ==
    /\ pc = "done" /\ clock = 0 /\ lines = <<>> /\ args_autosave_every = 0
    /\ args_offset = 0 /\ autosave_every = 0 /\ t0 = 0 /\ i = 0
    /\ paused = FALSE /\ pause_start = None /\ accumulated_pause = 0
    /\ stamps = <<>> /\ playing = FALSE /\ dest = <<>> /\ saved_msg = "none"
    /\ ended_by = "no" /\ run_time = 0 /\ undone = FALSE
    /\ tmp_file = "removed" /\ wav_path = TRUE /\ env_remove_ok = TRUE

\* real time passes; it counts as running time inside the loop while not paused
Tick ==
    /\ pc # "done"
    /\ clock < MaxClock
    /\ clock' = clock + 1
    /\ run_time' = IF pc = "input" /\ ~paused THEN run_time + 1 ELSE run_time
    /\ UNCHANGED <<pc, lines, args_autosave_every, args_offset, autosave_every, t0, i,
                   paused, pause_start, accumulated_pause, stamps, playing, dest,
                   saved_msg, ended_by, undone>>
    /\ UNCHANGED resource_vars
    /\ UNCHANGED <<synth_vars, merge_vars>>

\* the playback device reaches the end of the track on its own
PlaybackEnds ==
    /\ pc = "input"
    /\ playing
    /\ playing' = FALSE
    /\ UNCHANGED <<pc, clock, lines, args_autosave_every, args_offset, autosave_every,
                   t0, i, paused, pause_start, accumulated_pause, stamps, dest,
                   saved_msg, ended_by, run_time, undone>>
    /\ UNCHANGED resource_vars
    /\ UNCHANGED <<synth_vars, merge_vars>>

\* play = wave_obj.play(); t0 = ...; i, paused, pause_start, accumulated_pause = ...
Start ==
    /\ pc = "start"
    /\ playing' = TRUE
    /\ t0' = clock
    /\ i' = 0
    /\ paused' = FALSE
    /\ pause_start' = None
    /\ accumulated_pause' = 0
    /\ autosave_every' = Max(0, args_autosave_every)
    /\ pc' = IF loop_continues(0) THEN "input" ELSE "done"
    /\ UNCHANGED <<clock, lines, args_autosave_every, args_offset, stamps, dest,
                   saved_msg, ended_by, run_time, undone>>
    /\ UNCHANGED resource_vars
    /\ UNCHANGED <<synth_vars, merge_vars>>

\* finally: if wav_path and os.path.exists(wav_path): try os.remove except pass
Finally ==
    tmp_file' = IF wav_path /\ tmp_file = "exists"
                THEN (IF env_remove_ok THEN "removed" ELSE "remove_failed")
                ELSE tmp_file

\* the code after the loop: stop playback, write_output, "Saved ..."; finally
FinalSave(st, cause) ==
    /\ Finally
    /\ playing' = FALSE
    /\ dest' = write_output(st, args_offset)
    /\ saved_msg' = "final"
    /\ undone' = FALSE
    /\ ended_by' = cause
    /\ pc' = "done"

\* cmd == "q": break, then the final save
Quit ==
    /\ pc = "input"
    /\ FinalSave(stamps, "quit")
    /\ UNCHANGED <<clock, lines, args_autosave_every, args_offset, autosave_every, t0, i,
                   paused, pause_start, accumulated_pause, stamps, run_time>>
    /\ UNCHANGED <<wav_path, env_remove_ok>>
    /\ UNCHANGED <<synth_vars, merge_vars>>

\* input() raises EOFError: break, then the final save
Eof ==
    /\ pc = "input"
    /\ FinalSave(stamps, "eof")
    /\ UNCHANGED <<clock, lines, args_autosave_every, args_offset, autosave_every, t0, i,
                   paused, pause_start, accumulated_pause, stamps, run_time>>
    /\ UNCHANGED <<wav_path, env_remove_ok>>
    /\ UNCHANGED <<synth_vars, merge_vars>>

\* mutant: the index is not moved back
Undo_keeps_index ==
    /\ pc = "input"
    /\ IF stamps # <<>>
       THEN /\ stamps' = SubSeq(stamps, 1, Len(stamps) - 1)
            /\ undone' = TRUE
            /\ UNCHANGED i
       ELSE UNCHANGED <<stamps, i, undone>>
    /\ UNCHANGED <<pc, clock, lines, args_autosave_every, args_offset, autosave_every, t0,
                   paused, pause_start, accumulated_pause, playing, dest, saved_msg,
                   ended_by, run_time>>
    /\ UNCHANGED resource_vars
    /\ UNCHANGED <<synth_vars, merge_vars>>

\* cmd == "u"
Undo ==
    /\ pc = "input"
    /\ IF stamps # <<>>
       THEN /\ stamps' = SubSeq(stamps, 1, Len(stamps) - 1)
            /\ i' = i - 1
            /\ undone' = TRUE
       ELSE UNCHANGED <<stamps, i, undone>>
    /\ UNCHANGED <<pc, clock, lines, args_autosave_every, args_offset, autosave_every, t0,
                   paused, pause_start, accumulated_pause, playing, dest, saved_msg,
                   ended_by, run_time>>
    /\ UNCHANGED resource_vars
    /\ UNCHANGED <<synth_vars, merge_vars>>

\* cmd == "p" while not paused
Pause ==
    /\ pc = "input"
    /\ ~paused
    /\ playing' = FALSE
    /\ pause_start' = clock
    /\ paused' = TRUE
    /\ UNCHANGED <<pc, clock, lines, args_autosave_every, args_offset, autosave_every, t0,
                   i, accumulated_pause, stamps, dest, saved_msg, ended_by, run_time,
                   undone>>
    /\ UNCHANGED resource_vars
    /\ UNCHANGED <<synth_vars, merge_vars>>

\* cmd == "p" while paused
Resume ==
    /\ pc = "input"
    /\ paused
    /\ accumulated_pause' = IF pause_start # None
                            THEN accumulated_pause + pause_length
                            ELSE accumulated_pause
    /\ playing' = TRUE
    /\ paused' = FALSE
    /\ UNCHANGED <<pc, clock, lines, args_autosave_every, args_offset, autosave_every, t0,
                   i, pause_start, stamps, dest, saved_msg, ended_by, run_time, undone>>
    /\ UNCHANGED resource_vars
    /\ UNCHANGED <<synth_vars, merge_vars>>

\* any other command while paused: "You are paused. ..."; continue
MarkRejected ==
    /\ pc = "input"
    /\ mark_blocked
    /\ UNCHANGED vars

\* any other command while running: mark, autosave, and the loop test
Mark ==
    /\ pc = "input"
    /\ ~mark_blocked
    /\ LET st == Append(stamps, <<now, lines[i + 1]>>)
           auto == should_autosave(Len(st))
       IN /\ stamps' = st
          /\ i' = i + 1
          /\ IF loop_continues(i + 1)
             THEN /\ dest' = IF auto THEN write_output(st, args_offset) ELSE dest
                  /\ saved_msg' = IF auto THEN "autosave" ELSE saved_msg
                  /\ undone' = IF auto THEN FALSE ELSE undone
                  /\ UNCHANGED <<pc, playing, ended_by, tmp_file>>
             ELSE FinalSave(st, "complete")
    /\ UNCHANGED <<clock, lines, args_autosave_every, args_offset, autosave_every, t0,
                   paused, pause_start, accumulated_pause, run_time>>
    /\ UNCHANGED <<wav_path, env_remove_ok>>
    /\ UNCHANGED <<synth_vars, merge_vars>>

\* except KeyboardInterrupt: stop playback, write_output, "Saved ..."; finally
Interrupt ==
    /\ pc \in {"decode", "start", "input"}
    /\ Finally
    /\ playing' = FALSE
    /\ dest' = write_output(stamps, args_offset)
    /\ saved_msg' = "interrupt"
    /\ undone' = FALSE
    /\ ended_by' = "interrupt"
    /\ pc' = "done"
    /\ UNCHANGED <<clock, lines, args_autosave_every, args_offset, autosave_every, t0, i,
                   paused, pause_start, accumulated_pause, stamps, run_time>>
    /\ UNCHANGED <<wav_path, env_remove_ok>>
    /\ UNCHANGED <<synth_vars, merge_vars>>

\* ---------------------------------------------------------------------------
\* synchronizer.py with failing collaborators (SpecFault): the transcoder, the
\* playback device and the autosave write may raise
\* ---------------------------------------------------------------------------
\* the state inside transcode_to_wav: the temporary file exists, ffmpeg runs,
\* main's wav_path is still None
InitCaptureFault ==
    /\ pc = "decode"
    /\ clock = 0
    /\ lines \in LyricsFiles
    /\ args_autosave_every \in AutosaveArgs
    /\ args_offset \in OffsetArgs
    /\ autosave_every = 0
    /\ t0 = 0
    /\ i = 0
    /\ paused = FALSE
    /\ pause_start = None
    /\ accumulated_pause = 0
    /\ stamps = <<>>
    /\ playing = FALSE
    /\ dest = <<>>
    /\ saved_msg = "none"
    /\ ended_by = "no"
    /\ run_time = 0
    /\ undone = FALSE
    /\ tmp_file = "exists"
    /\ wav_path = FALSE
    /\ env_remove_ok \in BOOLEAN

\* an exception other than KeyboardInterrupt leaves the try block: no handler
\* matches, finally runs, the process exits with a traceback and without a save
Crash(cause) ==
    /\ Finally
    /\ playing' = FALSE
    /\ ended_by' = cause
    /\ pc' = "done"

\* wav_path, duration = transcode_to_wav(...); wave_obj = load_waveobject(wav_path)
Transcode ==
    /\ pc = "decode"
    /\ wav_path' = TRUE
    /\ pc' = "start"
    /\ UNCHANGED <<clock, lines, args_autosave_every, args_offset, autosave_every, t0, i,
                   paused, pause_start, accumulated_pause, stamps, playing, dest,
                   saved_msg, ended_by, run_time, undone, tmp_file, env_remove_ok>>
    /\ UNCHANGED <<synth_vars, merge_vars>>

\* subprocess.check_call(cmd) or check_output(probe) raises inside transcode_to_wav
TranscodeFails ==
    /\ pc = "decode"
    /\ Crash("decode_error")
    /\ UNCHANGED <<clock, lines, args_autosave_every, args_offset, autosave_every, t0, i,
                   paused, pause_start, accumulated_pause, stamps, dest, saved_msg,
                   run_time, undone, wav_path, env_remove_ok>>
    /\ UNCHANGED <<synth_vars, merge_vars>>

\* play = wave_obj.play() raises before the loop (line 73, outside any try)
StartPlayFails ==
    /\ pc = "start"
    /\ Crash("device_error")
    /\ UNCHANGED <<clock, lines, args_autosave_every, args_offset, autosave_every, t0, i,
                   paused, pause_start, accumulated_pause, stamps, dest, saved_msg,
                   run_time, undone, wav_path, env_remove_ok>>
    /\ UNCHANGED <<synth_vars, merge_vars>>

\* cmd == "p" while not paused: play.is_playing() raises (line 106, outside the try)
PauseQueryFails ==
    /\ pc = "input"
    /\ ~paused
    /\ Crash("device_error")
    /\ UNCHANGED <<clock, lines, args_autosave_every, args_offset, autosave_every, t0, i,
                   paused, pause_start, accumulated_pause, stamps, dest, saved_msg,
                   run_time, undone, wav_path, env_remove_ok>>
    /\ UNCHANGED <<synth_vars, merge_vars>>

\* cmd == "p" while not paused: play.stop() raises and is swallowed
PauseStopFails ==
    /\ pc = "input"
    /\ ~paused
    /\ playing
    /\ pause_start' = clock
    /\ paused' = TRUE
    /\ UNCHANGED <<pc, clock, lines, args_autosave_every, args_offset, autosave_every, t0,
                   i, accumulated_pause, stamps, playing, dest, saved_msg, ended_by,
                   run_time, undone>>
    /\ UNCHANGED resource_vars
    /\ UNCHANGED <<synth_vars, merge_vars>>

\* cmd == "p" while paused: wave_obj.play() raises and is reported
ResumePlayFails ==
    /\ pc = "input"
    /\ paused
    /\ accumulated_pause' = IF pause_start # None
                            THEN accumulated_pause + pause_length
                            ELSE accumulated_pause
    /\ paused' = FALSE
    /\ UNCHANGED <<pc, clock, lines, args_autosave_every, args_offset, autosave_every, t0,
                   i, pause_start, stamps, playing, dest, saved_msg, ended_by, run_time,
                   undone>>
    /\ UNCHANGED resource_vars
    /\ UNCHANGED <<synth_vars, merge_vars>>

\* a mark whose autosave write raises: "(Autosave failed: ...)"; the file may
\* have been truncated and partly written
MarkAutosaveFails ==
    /\ pc = "input"
    /\ ~mark_blocked
    /\ LET st == Append(stamps, <<now, lines[i + 1]>>)
           full == write_output(st, args_offset)
       IN /\ should_autosave(Len(st))
          /\ stamps' = st
          /\ i' = i + 1
          /\ IF loop_continues(i + 1)
             THEN /\ dest' \in {dest} \cup {SubSeq(full, 1, n) : n \in 0..(Len(full) - 1)}
                  /\ UNCHANGED <<pc, playing, ended_by, tmp_file, saved_msg, undone>>
             ELSE FinalSave(st, "complete")
    /\ UNCHANGED <<clock, lines, args_autosave_every, args_offset, autosave_every, t0,
                   paused, pause_start, accumulated_pause, run_time>>
    /\ UNCHANGED <<wav_path, env_remove_ok>>
    /\ UNCHANGED <<synth_vars, merge_vars>>

\* cmd == "q" or EOFError: play.is_playing() raises after the loop (line 140)
ExitQueryFails ==
    /\ pc = "input"
    /\ Crash("device_error")
    /\ UNCHANGED <<clock, lines, args_autosave_every, args_offset, autosave_every, t0, i,
                   paused, pause_start, accumulated_pause, stamps, dest, saved_msg,
                   run_time, undone, wav_path, env_remove_ok>>
    /\ UNCHANGED <<synth_vars, merge_vars>>

\* ---------------------------------------------------------------------------
\* Specifications
\* ---------------------------------------------------------------------------
Init == InitCapture /\ SynthIdle /\ MergeIdle

Next ==
    \/ Tick
    \/ PlaybackEnds
    \/ Start
    \/ Quit
    \/ Eof
    \/ Undo
    \/ Pause
    \/ Resume
    \/ MarkRejected
    \/ Mark
    \/ Interrupt

Spec == Init /\ [][Next]_vars

InitFault == InitCaptureFault /\ SynthIdle /\ MergeIdle

NextFault ==
    \/ Tick
    \/ PlaybackEnds
    \/ Start
    \/ Quit
    \/ Eof
    \/ Undo
    \/ Pause
    \/ Resume
    \/ MarkRejected
    \/ Mark
    \/ Interrupt
    \/ Transcode
    \/ TranscodeFails
    \/ StartPlayFails
    \/ PauseQueryFails
    \/ PauseStopFails
    \/ ResumePlayFails
    \/ MarkAutosaveFails
    \/ ExitQueryFails

SpecFault == InitFault /\ [][NextFault]_vars

InitS == CaptureIdle /\ InitSynth /\ MergeIdle

NextSynth ==
    \/ CollectAllEntries
    \/ ComputeIntervals

SpecSynth == InitS /\ [][NextSynth]_vars

InitM == CaptureIdle /\ InitMerge

NextMerge ==
    \/ CollectFromFolder
    \/ ComputeIntervals
    \/ WriteSrt

SpecMerge == InitM /\ [][NextMerge]_vars

\* ---------------------------------------------------------------------------
\* write_output followed by read_lyrics_csv on the file it wrote (SpecRoundTrip)
\* ---------------------------------------------------------------------------
\* the character of one decimal digit
DigitChar(d) == CHOOSE c \in Digits : DigitVal(c) = d

RECURSIVE Decimal(_)
\* the decimal digits of a natural number
Decimal(n) ==
    IF n < 10 THEN <<DigitChar(n)>> ELSE Append(Decimal(n \div 10), DigitChar(n % 10))

\* f"{t2:.3f}" for a time of ms milliseconds
FormatSeconds(ms) ==
    Decimal(ms \div 1000) \o <<".">> \o
    <<DigitChar((ms \div 100) % 10), DigitChar((ms \div 10) % 10), DigitChar(ms % 10)>>

\* the characters out.write puts in the file for one record
RecordText(rec) ==
    FormatSeconds(rec[1]) \o <<",", "0", ",", "\"">> \o rec[3] \o <<"\"", "\n">>

RECURSIVE FileText(_)
\* the characters of the whole output file
FileText(d) ==
    IF d = <<>> THEN <<>> ELSE RecordText(Head(d)) \o FileText(Tail(d))

\* the histories the capture loop can hold: the first n lyric lines in order,
\* stamped with running times that never decrease
Histories(ls) ==
    {st \in UNION {[1..n -> (0..MaxClock) \X {ls[k] : k \in 1..Len(ls)}] : n \in 0..Len(ls)} :
        /\ \A k \in 1..Len(st) : st[k][2] = ls[k]
        /\ \A k \in 1..(Len(st) - 1) : st[k][1] <= st[k + 1][1]}

InitRoundTrip ==
    /\ pc = "input"
    /\ lines \in LyricsFiles
    /\ stamps \in Histories(lines)
    /\ i = Len(stamps)
    /\ args_offset \in OffsetArgs
    /\ args_autosave_every = 0 /\ autosave_every = 0
    /\ t0 = 0
    /\ clock = IF stamps = <<>> THEN 0 ELSE stamps[Len(stamps)][1]
    /\ run_time = clock
    /\ paused = FALSE /\ pause_start = None /\ accumulated_pause = 0
    /\ playing = TRUE /\ dest = <<>> /\ saved_msg = "none"
    /\ ended_by = "no" /\ undone = FALSE
    /\ tmp_file = "exists" /\ wav_path = TRUE /\ env_remove_ok = TRUE
    /\ SynthIdle
    /\ starts_txt = <<>> /\ files = <<>> /\ starts = <<>> /\ fail = "none"
    /\ srt_opened = FALSE /\ srt_out = <<>> /\ rt = "stamps"
    /\ loaded = [ok |-> TRUE, err |-> "none", val |-> <<>>]

\* write_output(args.out, stamps, args.offset)
WriteOutput ==
    /\ rt = "stamps"
    /\ dest' = write_output(stamps, args_offset)
    /\ rt' = "written"
    /\ UNCHANGED <<pc, clock, lines, args_autosave_every, args_offset, autosave_every,
                   t0, i, paused, pause_start, accumulated_pause, stamps, playing,
                   saved_msg, ended_by, run_time, undone>>
    /\ UNCHANGED resource_vars
    /\ UNCHANGED synth_vars
    /\ UNCHANGED <<starts_txt, files, starts, fail, srt_opened, srt_out, loaded>>

\* read_lyrics_csv on the file write_output wrote
ReadBack ==
    /\ rt = "written"
    /\ loaded' = read_lyrics_csv(FileText(dest))
    /\ rt' = "read"
    /\ UNCHANGED <<capture_vars, synth_vars>>
    /\ UNCHANGED <<starts_txt, files, starts, fail, srt_opened, srt_out>>

NextRoundTrip ==
    \/ WriteOutput
    \/ ReadBack

SpecRoundTrip == InitRoundTrip /\ [][NextRoundTrip]_vars

\* ---------------------------------------------------------------------------
\* Properties of the round trip (checked under SpecRoundTrip)
\* ---------------------------------------------------------------------------
\* C18: reading back a file written by write_output gives one record per
\* stamp, with the written time and the original line text, whatever commas
\* or double quotes the text holds.
C18_RoundTrip ==
    rt = "read" =>
        /\ loaded.ok
        /\ Len(loaded.val) = Len(stamps)
        /\ \A k \in 1..Len(stamps) :
              loaded.val[k] = <<Max(0, stamps[k][1] + args_offset) * FPS, stamps[k][2]>>

\* ---------------------------------------------------------------------------
\* Properties of compute_intervals (checked under SpecSynth)
\* ---------------------------------------------------------------------------
CueStart(k) == intervals[k][1]
CueEnd(k) == intervals[k][2]

\* the documented cap: "at most 3 seconds after its own start" (module docstring)
DOC_MAX_DURATION == 300

\* C1 (as stated): for every sorted timeline, equal or close starts included,
\* every cue but the last ends at least GAP before the next cue starts.
C1_NeverOverlap ==
    phase = "cues" =>
        \A k \in 1..(Len(intervals) - 1) : CueEnd(k) + GAP <= CueStart(k + 1)

\* C1 (amended): a cue whose successor starts more than GAP later ends at least
\* GAP before that start; a cue whose successor starts at most GAP later gets
\* end = start + MIN_DURATION, which reaches into the GAP before the next cue.
C1_NoOverlapWhenSpaced ==
    phase = "cues" =>
        \A k \in 1..(Len(intervals) - 1) :
            IF CueStart(k + 1) - CueStart(k) > GAP
            THEN CueEnd(k) + GAP <= CueStart(k + 1)
            ELSE /\ CueEnd(k) = CueStart(k) + MIN_DURATION
                 /\ CueEnd(k) + GAP > CueStart(k + 1)

C1_Witness ==
    /\ phase = "cues"
    /\ \E k \in 1..(Len(intervals) - 1) :
          /\ CueStart(k + 1) - CueStart(k) > GAP
          /\ CueEnd(k) + GAP = CueStart(k + 1)
    /\ \E k \in 1..(Len(intervals) - 1) : CueStart(k + 1) = CueStart(k)

\* C2: every cue ends strictly after it starts, also when two consecutive
\* records share a start time.
C2_PositiveDuration ==
    phase = "cues" => \A k \in 1..Len(intervals) : CueEnd(k) > CueStart(k)

C2_Witness ==
    /\ phase = "cues"
    /\ \E k \in 1..(Len(intervals) - 1) :
          /\ CueStart(k + 1) = CueStart(k)
          /\ CueEnd(k) > CueStart(k)

\* C3: every cue lasts at most 3.0 s and the last cue ends exactly 3.0 s after
\* its start; starts 0.0, 1.0, 10.0 give ends 0.99, 4.0, 13.0.
C3_CapIsThreeSeconds ==
    phase = "cues" =>
        /\ \A k \in 1..Len(intervals) : CueEnd(k) - CueStart(k) <= DOC_MAX_DURATION
        /\ Len(intervals) > 0 =>
              CueEnd(Len(intervals)) = CueStart(Len(intervals)) + DOC_MAX_DURATION
        /\ (Len(intervals) = 3 /\ CueStart(1) = 0 /\ CueStart(2) = 100 /\ CueStart(3) = 1000)
              => (CueEnd(1) = 99 /\ CueEnd(2) = 400 /\ CueEnd(3) = 1300)

\* every reordering of the sequence s
PermutationsOf(s) ==
    {[k \in 1..Len(s) |-> s[f[k]]] :
        f \in {g \in [1..Len(s) -> 1..Len(s)] :
                 \A a, b \in 1..Len(s) : a # b => g[a] # g[b]}}

IsSortedByStart(s) == \A k \in 1..(Len(s) - 1) : s[k][1] <= s[k + 1][1]

CueTimes(ivs) == [k \in 1..Len(ivs) |-> <<ivs[k][1], ivs[k][2]>>]

\* two records share a start time and differ in text
HasTextTie(s) ==
    \E a, b \in 1..Len(s) : s[a][1] = s[b][1] /\ s[a][2] # s[b][2]

\* C15 (as stated): the cues computed from any order of the records are exactly
\* the cues computed from the same records given already sorted.
C15_OrderInsensitive ==
    phase = "cues" =>
        \A p \in PermutationsOf(rows) :
            IsSortedByStart(p) => compute_intervals(SortByStart(p)) = intervals

\* C15 (amended): every order of the records gives the same cue starts and
\* ends; the texts agree too unless two records share a start time and differ
\* in text, and records with equal starts keep their input order.
C15_OrderInsensitiveTimes ==
    phase = "cues" =>
        /\ \A p \in PermutationsOf(rows) :
              /\ CueTimes(compute_intervals(SortByStart(p))) = CueTimes(intervals)
              /\ ~HasTextTie(rows) => compute_intervals(SortByStart(p)) = intervals
        /\ \A a, b \in 1..Len(rows) :
              (a < b /\ rows[a][1] = rows[b][1] /\ rows[a][2] # rows[b][2]) =>
                 \E x, y \in 1..Len(intervals) :
                    /\ x < y
                    /\ intervals[x][1] = rows[a][1] /\ intervals[x][3] = rows[a][2]
                    /\ intervals[y][1] = rows[b][1] /\ intervals[y][3] = rows[b][2]

\* an unsorted input with a tie in start time and different texts
C15_Witness ==
    /\ phase = "cues"
    /\ ~IsSortedByStart(rows)
    /\ HasTextTie(rows)
    /\ Len(intervals) = Len(rows)

Last(s) == s[Len(s)]
Front(s) == SubSeq(s, 1, Len(s) - 1)

\* what a flush of the history st leaves in the destination
Flushed(st) == [k \in 1..Len(st) |-> output_record(st[k], args_offset)]

\* C4: the timestamp a mark records is the real time the session has spent
\* running: the time since t0 less every pause completed before the mark.
C4_StampIsRunningTime ==
    [][Len(stamps') > Len(stamps) => Last(stamps')[1] = run_time]_vars

\* the last mark was made after a pause of non-zero length had been resumed
C4_Witness ==
    /\ stamps # <<>>
    /\ ~paused
    /\ pause_start # None
    /\ accumulated_pause > 0
    /\ Last(stamps)[1] > pause_start - t0
    /\ Last(stamps)[1] = run_time

\* C5: the history and the index change only by a mark accepted while running
\* (one record appended) or by an undo (one record removed); no step taken
\* while paused appends, and no pause or resume changes them.
C5_HistoryFrame ==
    [][(stamps' # stamps \/ i' # i) =>
          /\ paused' = paused
          /\ \/ /\ ~paused
                /\ Len(stamps') = Len(stamps) + 1
                /\ Front(stamps') = stamps
                /\ i' = i + 1
             \/ /\ stamps # <<>>
                /\ stamps' = Front(stamps)
                /\ i' = i - 1]_vars

\* paused a second time, with taps recorded and an earlier pause resumed
C5_Witness ==
    /\ paused
    /\ stamps # <<>>
    /\ accumulated_pause > 0
    /\ clock > pause_start

\* C6: undo with a non-empty history removes exactly the last record and
\* moves the index back by 1 to the line of that record; with an empty history
\* it changes nothing; the running/paused state and the pause accounting stay.
C6_UndoEffect ==
    [][(Undo \/ Len(stamps') < Len(stamps)) =>
          /\ IF stamps # <<>>
             THEN /\ stamps' = Front(stamps)
                  /\ i' = i - 1
                  /\ lines[i' + 1] = Last(stamps)[2]
             ELSE UNCHANGED <<stamps, i>>
          /\ UNCHANGED <<pc, paused, pause_start, accumulated_pause, t0>>]_vars

\* an undo has removed a record while paused
C6_Witness ==
    /\ pc = "input"
    /\ undone
    /\ paused
    /\ Len(stamps) > 0
    /\ i = Len(stamps)

\* C7 (as stated): a mark that records a tap never itself ends the session, so
\* after the last line has been marked the loop still accepts commands.
C7_MarkNeverEnds ==
    [][Len(stamps') > Len(stamps) => pc' # "done"]_vars

\* C7 (amended): a mark in Running records the tap of line index and advances
\* the index by 1; the session stays open iff the new index is below the line
\* count, and the mark of the last line itself ends it.  No command is read
\* with index = line count.
C7_LastMarkEnds ==
    /\ [](pc = "input" => i < Len(lines))
    /\ [][Len(stamps') > Len(stamps) =>
             /\ i < Len(lines)
             /\ i' = i + 1
             /\ Last(stamps')[2] = lines[i + 1]
             /\ (pc' = "done" <=> i' = Len(lines))]_vars

C7_Witness ==
    /\ pc = "done"
    /\ ended_by = "complete"
    /\ Len(lines) > 1
    /\ i = Len(lines)
    /\ Len(stamps) = Len(lines)

\* C8: when the session ends by quit, end of input or interrupt, a save has
\* been made and the destination holds one record per history entry, in order.
C8_FinalFlush ==
    (pc = "done" /\ ended_by \in {"quit", "eof", "interrupt"}) =>
        /\ saved_msg \in {"final", "interrupt"}
        /\ Len(dest) = Len(stamps)
        /\ \A k \in 1..Len(stamps) :
              dest[k] = <<Max(0, stamps[k][1] + args_offset), 0, Escape(stamps[k][2])>>

\* interrupted with two or more taps, after autosaves
C8_Witness ==
    /\ pc = "done"
    /\ ended_by = "interrupt"
    /\ autosave_every = 1
    /\ Len(stamps) >= 2
    /\ Len(dest) = Len(stamps)

\* C9 (as stated): with N > 0, whenever the history length becomes a positive
\* multiple of N the whole current history is flushed.
C9_FlushAtEveryMultiple ==
    [][(autosave_every > 0 /\ stamps' # stamps /\ Len(stamps') > 0
          /\ Len(stamps') % autosave_every = 0) =>
             dest' = Flushed(stamps')]_vars

\* C9 (amended): with N > 0, whenever a mark brings the history length to a
\* positive multiple of N the whole current history is flushed, and the session
\* continues unless that mark was the last line's; an undo never flushes; with
\* N = 0 nothing is flushed before the session ends.
C9_FlushAfterMark ==
    /\ [][(autosave_every > 0 /\ Len(stamps') > Len(stamps)
             /\ Len(stamps') % autosave_every = 0) =>
                /\ dest' = Flushed(stamps')
                /\ saved_msg' \in {"autosave", "final"}
                /\ (pc' = "input" <=> i' < Len(lines))]_vars
    /\ [][Len(stamps') < Len(stamps) => UNCHANGED <<dest, saved_msg>>]_vars
    /\ []((autosave_every = 0 /\ pc # "done") => (saved_msg = "none" /\ dest = <<>>))

C9_Witness ==
    /\ pc = "input"
    /\ autosave_every = 2
    /\ Len(stamps) = 2
    /\ saved_msg = "autosave"
    /\ dest = Flushed(stamps)

\* C10 (as stated): every flush leaves a superset of the records left by the
\* flush before it.
C10_FlushesGrow ==
    [][Range(dest) \subseteq Range(dest')]_vars

\* C10 (amended): every flush overwrites the destination with exactly the
\* records of the current history; it keeps every record of the flush before
\* it provided no undo was executed in between.
C10_FlushIsSnapshot ==
    /\ [][dest' # dest => dest' = Flushed(stamps')]_vars
    /\ [](~undone => IsPrefix(dest, Flushed(stamps)))

\* a flush was made, more taps followed, no undo since
C10_Witness ==
    /\ saved_msg = "autosave"
    /\ ~undone
    /\ dest # <<>>
    /\ Len(dest) < Len(stamps)

\* C19: in the capture loop the index equals the length of the history, lies
\* in 0..line count, and the k-th record carries the text of the k-th line.
C19_IndexIsHistoryLength ==
    pc \in {"input", "done"} =>
        /\ i = Len(stamps)
        /\ 0 <= i
        /\ i <= Len(lines)
        /\ \A k \in 1..Len(stamps) : stamps[k][2] = lines[k]

\* taps re-made after an undo, with a pause resumed
C19_Witness ==
    /\ pc = "input"
    /\ undone
    /\ ~paused
    /\ accumulated_pause > 0
    /\ Len(stamps) >= 2
    /\ i = Len(stamps)

\* C20: the timestamps of the history are non-decreasing in history order.
C20_StampsNonDecreasing ==
    \A k \in 1..(Len(stamps) - 1) : stamps[k][1] <= stamps[k + 1][1]

\* the last tap follows an undo and a resumed pause of non-zero length
C20_Witness ==
    /\ Len(stamps) >= 2
    /\ undone
    /\ pause_start # None
    /\ accumulated_pause > 0
    /\ stamps[Len(stamps) - 1][1] <= pause_start - t0
    /\ Last(stamps)[1] > pause_start - t0
    /\ Last(stamps)[1] < clock - t0

\* ---------------------------------------------------------------------------
\* Properties of the capture program with failing collaborators (SpecFault)
\* ---------------------------------------------------------------------------
\* C11: no playback-device error (start, play-state query, stop, restart) and
\* no autosave write error ends the session: it never ends by an error.
C11_FaultsAreIsolated ==
    ended_by # "device_error"

\* C12: whenever the process has exited after the temporary file was created,
\* the file has been deleted or its deletion was attempted.
C12_TempFileRemoved ==
    pc = "done" => tmp_file \in {"removed", "remove_failed"}

\* ---------------------------------------------------------------------------
\* Properties of main() of merge_lyrics_to_srt.py (checked under SpecMerge)
\* ---------------------------------------------------------------------------
\* digits:digits:digits
TimecodeShape(tc) ==
    LET parts == SplitOn(tc, ":", <<>>, <<>>)
    IN Len(parts) = 3 /\ \A k \in 1..3 : AllDigits(parts[k])

\* a non-blank line of starts.txt that is not "<track> <timecode>"
LineMalformed(line) ==
    LET parts == SplitWs(line, <<>>, <<>>)
    IN /\ parts # <<>>
       /\ ~(Len(parts) = 2 /\ TimecodeShape(parts[2]))

HasMalformedLine == \E k \in 1..Len(starts_txt) : LineMalformed(starts_txt[k])

\* the track ids named by the well-formed lines of starts.txt
ListedTracks ==
    {SplitWs(starts_txt[k], <<>>, <<>>)[1] :
        k \in {j \in 1..Len(starts_txt) :
                 SplitWs(starts_txt[j], <<>>, <<>>) # <<>> /\ ~LineMalformed(starts_txt[j])}}

HasMissingFile == \E t \in ListedTracks : ~FileExists(t)

\* decimal notation of a real number: optional sign, digits, at most one point
LooksReal(cs) ==
    LET body == IF cs # <<>> /\ Head(cs) \in {"+", "-"} THEN Tail(cs) ELSE cs
    IN /\ \A k \in 1..Len(body) : body[k] \in Digits \cup {"."}
       /\ Cardinality({k \in 1..Len(body) : body[k] = "."}) <= 1
       /\ \E k \in 1..Len(body) : body[k] \in Digits

\* the non-empty rows of the files of the listed tracks
ListedRows ==
    UNION {Range(csv_reader(files[t])) \ {<<>>} : t \in {u \in ListedTracks : FileExists(u)}}

HasInvalidStart == \E row \in ListedRows : ~LooksReal(Strip(row[1]))

\* C13: if a line of starts.txt is malformed, an expected track file is missing
\* or a record has an invalid start time, the run aborts and the output file is
\* never opened.
C13_AbortBeforeOutput ==
    (HasMalformedLine \/ HasMissingFile \/ HasInvalidStart) =>
        /\ phase \in {"folder", "failed"}
        /\ ~srt_opened
        /\ srt_out = <<>>

\* the second of two listed tracks has a record with an invalid start
C13_Witness ==
    /\ phase = "failed"
    /\ fail = "invalid_start"
    /\ Len(starts) = 2
    /\ ~srt_opened

\* C14 (as stated): no record with a negative start time enters the timeline.
C14_NoNegativeStart ==
    phase \in {"entries", "cues", "written"} =>
        \A k \in 1..Len(entries) : entries[k][1] >= 0

\* C14 (amended): with a well-formed starts.txt and all track files present,
\* the run fails with an invalid-start-time error exactly when some record's
\* first column is not the decimal notation of a real number; a negative number
\* is a valid start, and every record of every listed file enters the timeline.
C14_FailsIffNotANumber ==
    (phase # "folder" /\ ~HasMalformedLine /\ ~HasMissingFile) =>
        /\ (phase = "failed" /\ fail = "invalid_start") <=> HasInvalidStart
        /\ phase # "failed" =>
              \A n \in 1..Len(starts) :
                 \A row \in Range(csv_reader(files[starts[n][1]])) \ {<<>>} :
                    \E k \in 1..Len(entries) :
                       entries[k][1] = ToCs(starts[n][2] + ParseFloat(row[1]).val)

\* a record with a negative start is in the timeline
C14_Witness ==
    /\ phase = "entries"
    /\ \E k \in 1..Len(entries) : entries[k][1] < 0
    /\ \E row \in ListedRows : Head(Strip(row[1])) = "-"

\* C16 (as stated): the line "01 00:01:16" gives track "01" with offset 61.5 s.
C16_OffsetIs61_5 ==
    (starts_txt = <<Line_01_000116>> /\ phase # "folder") =>
        starts = << <<<<"0", "1">>, 61 * Second + Second \div 2>> >>

\* C16 (amended): the line "01 00:01:16" gives track "01" with offset 1.5 s
\* (0 minutes, 1 second, 16 frames of 1/32 s).
C16_OffsetIs1_5 ==
    (starts_txt = <<Line_01_000116>> /\ phase # "folder") =>
        /\ starts = << <<<<"0", "1">>, Second + Second \div 2>> >>
        /\ fail \notin {"bad_starts_line", "bad_timecode"}

C16_Witness ==
    /\ starts_txt = <<Line_01_000116>>
    /\ phase = "entries"
    /\ Len(starts) = 1
    /\ \A k \in 1..Len(entries) : entries[k][1] >= 150

====
